---------------------------- MODULE Spec2Model ----------------------------
(***************************************************************************)
(* Media assembly pipeline of the YouTube Shorts agent                     *)
(* (src/agent/video_creator.py, class VideoCreator).                       *)
(*                                                                         *)
(* Each component is a small state machine over its own variables:         *)
(*   SpecSegment   the word grouping loop of _add_captions                 *)
(*   SpecCaptions  the whole of _add_captions, overlays included           *)
(*   SpecResize    _resize_and_crop, in IEEE-754 binary64 arithmetic       *)
(*   SpecCompose   _create_base_video                                      *)
(*   SpecAudio     _add_audio                                              *)
(*   SpecCache     _download_single_clip, workers sharing a cache file     *)
(*   SpecAcquire   _get_stock_footage_parallel with the time it takes      *)
(*   SpecKeys      the tasks of one acquisition and their cache keys       *)
(*   SpecInvalid   create_video with a narration duration <= 0             *)
(*   SpecDashboard the dashboard's /api/create and its background tasks    *)
(*   SpecTwoRenders  overlapping renders and the directories they share    *)
(*   SpecComposeFloat  _create_base_video with float durations             *)
(*   Spec          create_video with _get_stock_footage_parallel           *)
(* Times are exact rationals [n, d] (seconds); a script is a sequence of   *)
(* one-character strings.                                                  *)
(***************************************************************************)
EXTENDS Integers, Sequences, FiniteSets, TLC

VARIABLES
    \* _add_captions
    cpc,               \* position inside _add_captions
    script,            \* the script argument: a sequence of characters
    duration,          \* the duration argument (whole seconds)
    words,             \* script.split()
    wi,                \* number of words the grouping loop has consumed
    current,           \* the group being filled
    segments,          \* closed groups, each ' '.join(current)
    flushed,           \* the last segment is the trailing partial group (line 363)
    segment_duration,  \* duration / len(segments)
    ci,                \* number of segments the overlay loop has visited
    caption_clips,     \* overlays built so far
    layers             \* the layers of the returned CompositeVideoClip

capVars == <<cpc, script, duration, words, wi, current, segments, flushed,
             segment_duration, ci, caption_clips, layers>>

VARIABLES
    \* _resize_and_crop
    rpc,               \* position inside _resize_and_crop
    width, height,     \* self.width, self.height: the target resolution
    clip_w, clip_h,    \* clip.size of the source clip
    new_width, new_height,
    x1, y1, x2, y2,    \* the crop window
    out_size           \* size of the returned clip

resVars == <<rpc, width, height, clip_w, clip_h, new_width, new_height,
             x1, y1, x2, y2, out_size>>

VARIABLES
    \* _create_base_video
    bpc,               \* position inside _create_base_video
    clip_paths,        \* the clip_paths argument: one source duration per path
    target_duration,   \* the target_duration argument
    bi,                \* number of paths the loop has visited
    opened,            \* indices of the paths VideoFileClip was called on
    base_clips,        \* clips: the accepted clips, [src, dur, trimmed]
    base_total,        \* total_duration
    base_video         \* the returned timeline, [kind, dur]

baseVars == <<bpc, clip_paths, target_duration, bi, opened, base_clips,
              base_total, base_video>>

VARIABLES
    \* _add_audio
    apc,               \* position inside _add_audio
    voiceover,         \* voiceover.duration
    music_path,        \* _get_background_music(niche): "none" or "file"
    asset_duration,    \* duration of the music file
    music,             \* music.duration of the clip being prepared
    loops_needed,      \* copies handed to concatenate_audioclips (0: no loop)
    music_error,       \* the except of line 420 caught an exception
    audio              \* the audio attached to the video, [tracks, dur]

audVars == <<apc, voiceover, music_path, asset_duration, music, loops_needed,
             music_error, audio>>

VARIABLES
    \* create_video and _get_stock_footage_parallel
    ppc,               \* stage of this create_video invocation
    task,              \* per download task: "queued", "running", "returned", "collected"
    outcome,           \* per download task: what _download_single_clip returned
    collecting,        \* the as_completed loop of lines 254-262 is running
    clips,             \* clips of _get_stock_footage_parallel
    total_duration,    \* total_duration of _get_stock_footage_parallel
    fallback,          \* _create_fallback_backgrounds was called
    failed_in,         \* the step whose exception ended the invocation
    result,            \* the dict create_video returned
    elapsed,           \* time units spent so far in the acquisition stage
    encodes,           \* calls of final_video.write_videofile
    open_handles,      \* media resources opened and not closed
    output_file        \* the file at output_path: "absent", "partial", "complete"

pipeVars == <<ppc, task, outcome, collecting, clips, total_duration, fallback, failed_in,
              result, elapsed, encodes, open_handles, output_file>>

VARIABLES
    \* _download_single_clip, per worker, and the cache file they share
    wpc,               \* position inside _download_single_clip
    wres,              \* the first component of the returned tuple
    wpos,              \* chunks written through the worker's file handle
    wstatus,           \* status of video_response: "ok" or "http_error"
    requested,         \* the worker issued the download request of line 226
    hit,               \* the worker found the cache file at line 225
    cache_file         \* content of cache/<term>_<index>.mp4, or Missing

cacheVars == <<wpc, wres, wpos, wstatus, requested, hit, cache_file>>

VARIABLES
    \* the tasks of one acquisition and the cache files they name
    kpc,               \* position inside lines 240-252
    search_terms,      \* the list NICHE_SEARCH_TERMS has for the niche
    selected_terms,    \* random.sample of line 241
    download_tasks,    \* the (term, i) pairs of line 248
    cache_keys         \* per task, the cache_key of line 222

keyVars == <<kpc, search_terms, selected_terms, download_tasks, cache_keys>>

VARIABLES
    \* the dashboard: agent_status["is_running"] and the requests to /api/create
    is_running,        \* agent_status["is_running"]
    handler,           \* per request: position of its handler create_video()
    thread,            \* per request: its background thread
    arrived_late       \* per request: it arrived while another task was unfinished

dashVars == <<is_running, handler, thread, arrived_late>>

VARIABLES
    \* renders that overlap in time and the directories they share
    render_pc,         \* per render: how far it has come
    temp_dir,          \* the files in temp/
    needs,             \* per render: the temp files it wrote and has yet to read
    out_name,          \* per render: its output_filename
    output_dir         \* per output name: the render whose encode is in the file

twoVars == <<render_pc, temp_dir, needs, out_name, output_dir>>

vars == <<capVars, cacheVars, keyVars, dashVars, twoVars, resVars, baseVars, audVars, pipeVars>>

\* a path that does not exist, and a file with the given chunks
Missing == [exists |-> FALSE, data |-> <<>>]
File(d) == [exists |-> TRUE, data |-> d]

\* what each component leaves alone
CapFrame == UNCHANGED <<cacheVars, keyVars, dashVars, twoVars, resVars, baseVars, audVars, pipeVars>>
ResFrame == UNCHANGED <<capVars, cacheVars, keyVars, dashVars, twoVars, baseVars, audVars, pipeVars>>
BaseFrame == UNCHANGED <<capVars, cacheVars, keyVars, dashVars, twoVars, resVars, audVars, pipeVars>>
AudFrame == UNCHANGED <<capVars, cacheVars, keyVars, dashVars, twoVars, resVars, baseVars, pipeVars>>
CacheFrame == UNCHANGED <<capVars, keyVars, dashVars, twoVars, resVars, baseVars, audVars, pipeVars>>
KeyFrame == UNCHANGED <<capVars, cacheVars, dashVars, twoVars, resVars, baseVars, audVars, pipeVars>>
DashFrame == UNCHANGED <<capVars, cacheVars, keyVars, twoVars, resVars, baseVars, audVars, pipeVars>>
TwoFrame == UNCHANGED <<capVars, cacheVars, keyVars, dashVars, resVars, baseVars, audVars, pipeVars>>

----------------------------------------------------------------------------
(* Bounds of the model *)

MaxWords == 6        \* words of a script in SpecSegment
MaxCapWords == 6     \* words of a free script in SpecCaptions
MaxK == 4            \* scripts of 5k plain words, k up to MaxK
MaxDn == 3           \* narration durations 1..MaxDn
MaxScale == 120      \* source clips of a * j by b * j pixels, j up to MaxScale
MaxClips == 4        \* paths handed to _create_base_video
MaxClipDur == 3      \* source clips last 1..MaxClipDur seconds
MaxTarget == 4       \* target durations 1..MaxTarget of _create_base_video
MaxVoice == 6        \* narration durations 1..MaxVoice of _add_audio
MaxMusic == 7        \* music files last 0..MaxMusic seconds
NumWorkers == 2      \* workers that share one cache key
StageBudget == 2     \* time units allowed for the acquisition stage
MaxElapsed == 3      \* time units the acquisition stage is followed for
NumChunks == 2       \* chunks of a download body
MaxTerms == 5        \* search terms in the list of a niche
MaxInvalid == 1      \* non-positive narration durations 0 - MaxInvalid .. 0
NumRequests == 3     \* POST /api/create requests
NumRenders == 2      \* renders that overlap in time
MaxClipTenths == 7   \* float clip durations 0.1 .. MaxClipTenths / 10
MaxTargetTenths == 9 \* float target durations 0.1 .. MaxTargetTenths / 10
MaxFloatClips == 3   \* paths handed to _create_base_video, float durations

----------------------------------------------------------------------------
(* Exact rational arithmetic for times *)

Rat(n, d) == [n |-> n, d |-> d]
Zero == Rat(0, 1)
RatOfInt(i) == Rat(i, 1)
RatEq(a, b) == a.n * b.d = b.n * a.d
RatLt(a, b) == a.n * b.d < b.n * a.d
RatAdd(a, b) == Rat(a.n * b.d + b.n * a.d, a.d * b.d)
RatMulInt(i, a) == Rat(i * a.n, a.d)
RatDivInt(i, k) == Rat(i, k)

----------------------------------------------------------------------------
(* Strings *)

Whitespace == {" ", "\t"}
Terminal == {".", "!", "?"}

\* str.split(): maximal runs of non-whitespace characters
RECURSIVE SplitFrom(_, _, _, _)
SplitFrom(s, i, cur, acc) ==
    IF i > Len(s)
    THEN IF cur = <<>> THEN acc ELSE Append(acc, cur)
    ELSE IF s[i] \in Whitespace
         THEN SplitFrom(s, i + 1, <<>>, IF cur = <<>> THEN acc ELSE Append(acc, cur))
         ELSE SplitFrom(s, i + 1, Append(cur, s[i]), acc)

SplitWhole(s) == <<s>>

Split(s) == SplitFrom(s, 1, <<>>, <<>>)

\* sep.join(ws)
RECURSIVE Join(_, _)
Join(ws, sep) ==
    IF ws = <<>> THEN <<>>
    ELSE IF Len(ws) = 1 THEN ws[1]
    ELSE ws[1] \o sep \o Join(Tail(ws), sep)

\* word.endswith(('.', '!', '?'))
EndsWithTerminal(word) == word # <<>> /\ word[Len(word)] \in Terminal

----------------------------------------------------------------------------
(* _add_captions, lines 348-398 *)

MaxGroup == 5

SegmentClosedLate(cur, word) == Len(cur) > MaxGroup \/ EndsWithTerminal(word)

\* line 359: the group is closed after this word
SegmentClosed(cur, word) == Len(cur) >= MaxGroup \/ EndsWithTerminal(word)

CaptionStartShifted(i, sd) == RatMulInt(i + 1, sd)

\* line 389: with_start(i * segment_duration)
CaptionStart(i, sd) == RatMulInt(i, sd)

\* the TextClip of segment i (0-based) as lines 388-390 leave it
TxtClip(i, segment, sd) ==
    [seg |-> i, text |-> segment, start |-> CaptionStart(i, sd), dur |-> sd]

CaptionsGroupWordDropsLast ==
    /\ cpc = "group"
    /\ wi < Len(words)
    /\ LET word == words[wi + 1]
           cur == Append(current, word)
       IN  IF SegmentClosed(cur, word)
           THEN /\ segments' = Append(segments, Join(current, <<" ">>))
                /\ current' = <<>>
           ELSE /\ current' = cur
                /\ UNCHANGED segments
    /\ wi' = wi + 1
    /\ UNCHANGED <<cpc, script, duration, words, flushed, segment_duration,
                   ci, caption_clips, layers>>
    /\ CapFrame

CaptionsFlushDropsPartial ==
    /\ cpc = "group"
    /\ wi = Len(words)
    /\ flushed' = FALSE
    /\ current' = <<>>
    /\ IF segments = <<>>
       THEN /\ layers' = <<"video">>
            /\ cpc' = "done"
            /\ UNCHANGED segment_duration
       ELSE /\ segment_duration' = RatDivInt(duration, Len(segments))
            /\ cpc' = "overlay"
            /\ UNCHANGED layers
    /\ UNCHANGED <<script, duration, words, wi, segments, ci, caption_clips>>
    /\ CapFrame

\* lines 350-352
CaptionsSplit ==
    /\ cpc = "split"
    /\ words' = Split(script)
    /\ IF Split(script) = <<>>
       THEN /\ layers' = <<"video">>
            /\ cpc' = "done"
       ELSE /\ cpc' = "group"
            /\ UNCHANGED layers
    /\ UNCHANGED <<script, duration, wi, current, segments, flushed,
                   segment_duration, ci, caption_clips>>
    /\ CapFrame

\* lines 357-361: one iteration of the grouping loop
CaptionsGroupWord ==
    /\ cpc = "group"
    /\ wi < Len(words)
    /\ LET word == words[wi + 1]
           cur == Append(current, word)
       IN  IF SegmentClosed(cur, word)
           THEN /\ segments' = Append(segments, Join(cur, <<" ">>))
                /\ current' = <<>>
           ELSE /\ current' = cur
                /\ UNCHANGED segments
    /\ wi' = wi + 1
    /\ UNCHANGED <<cpc, script, duration, words, flushed, segment_duration,
                   ci, caption_clips, layers>>
    /\ CapFrame

\* lines 362-368: flush the partial group, then the early return or the timing
CaptionsFlush ==
    /\ cpc = "group"
    /\ wi = Len(words)
    /\ LET segs == IF current # <<>>
                   THEN Append(segments, Join(current, <<" ">>))
                   ELSE segments
       IN  /\ segments' = segs
           /\ flushed' = (current # <<>>)
           /\ current' = <<>>
           /\ IF segs = <<>>
              THEN /\ layers' = <<"video">>
                   /\ cpc' = "done"
                   /\ UNCHANGED segment_duration
              ELSE /\ segment_duration' = RatDivInt(duration, Len(segs))
                   /\ cpc' = "overlay"
                   /\ UNCHANGED layers
    /\ UNCHANGED <<script, duration, words, wi, ci, caption_clips>>
    /\ CapFrame

\* lines 374-394: one iteration of the overlay loop; TextClip or one of the
\* with_* calls may raise, and the bare except skips the segment
CaptionsOverlay ==
    /\ cpc = "overlay"
    /\ ci < Len(segments)
    /\ \E raised \in BOOLEAN :
          caption_clips' =
              IF raised THEN caption_clips
              ELSE Append(caption_clips, TxtClip(ci, segments[ci + 1], segment_duration))
    /\ ci' = ci + 1
    /\ UNCHANGED <<cpc, script, duration, words, wi, current, segments, flushed,
                   segment_duration, layers>>
    /\ CapFrame

\* lines 396-398
CaptionsCompose ==
    /\ cpc = "overlay"
    /\ ci = Len(segments)
    /\ layers' = <<"video">> \o caption_clips
    /\ cpc' = "done"
    /\ UNCHANGED <<script, duration, words, wi, current, segments, flushed,
                   segment_duration, ci, caption_clips>>
    /\ CapFrame

----------------------------------------------------------------------------
(* Python float: IEEE-754 binary64, round to nearest, ties to even.        *)
(* A positive float is [e, m]: m is the significand, Precision bits with   *)
(* the most significant first and m[1] = 1, and the value lies in          *)
(* [2^e, 2^(e+1)).                                                         *)

Precision == 53

RECURSIVE Pow2(_)
Pow2(k) == IF k = 0 THEN 1 ELSE 2 * Pow2(k - 1)

\* binary digits of n, most significant first (<<>> for 0)
RECURSIVE IntBits(_)
IntBits(n) == IF n = 0 THEN <<>> ELSE Append(IntBits(n \div 2), n % 2)

RECURSIVE BitsToInt(_)
BitsToInt(b) ==
    IF b = <<>> THEN 0 ELSE 2 * BitsToInt(SubSeq(b, 1, Len(b) - 1)) + b[Len(b)]

\* b + 1; a carry out of the top bit gives 1 followed by zeros, one bit longer
RECURSIVE IncBits(_)
IncBits(b) ==
    IF b = <<>> THEN <<1>>
    ELSE IF b[Len(b)] = 0 THEN Append(SubSeq(b, 1, Len(b) - 1), 1)
    ELSE Append(IncBits(SubSeq(b, 1, Len(b) - 1)), 0)

\* the float nearest to bits * 2^(e - Len(bits) + 1), where bits[1] = 1 and
\* sticky says that nonzero digits follow the given ones
RoundBits(bits, sticky, e) ==
    IF Len(bits) <= Precision
    THEN [e |-> e, m |-> bits \o [i \in 1..(Precision - Len(bits)) |-> 0]]
    ELSE LET keep == SubSeq(bits, 1, Precision)
             guard == bits[Precision + 1]
             rest == sticky \/ \E i \in (Precision + 2)..Len(bits) : bits[i] = 1
             up == guard = 1 /\ (rest \/ keep[Precision] = 1)
             inc == IncBits(keep)
         IN  IF ~up THEN [e |-> e, m |-> keep]
             ELSE IF Len(inc) > Precision
                  THEN [e |-> e + 1, m |-> SubSeq(inc, 1, Precision)]
                  ELSE [e |-> e, m |-> inc]

\* n binary digits of rem / den (rem < 2 * den), and whether a remainder is left
RECURSIVE DivDigits(_, _, _, _)
DivDigits(rem, den, n, acc) ==
    IF n = 0 THEN [bits |-> acc, sticky |-> rem # 0]
    ELSE LET bit == IF rem >= den THEN 1 ELSE 0
         IN  DivDigits(2 * (rem - bit * den), den, n - 1, Append(acc, bit))

\* a / b for ints a, b > 0 (true division, correctly rounded)
FloatDiv(a, b) ==
    LET up == CHOOSE t \in 0..30 : b * Pow2(t) <= a /\ a < b * Pow2(t + 1)
        down == CHOOSE t \in 1..30 : a * Pow2(t) >= b /\ a * Pow2(t - 1) < b
        q == IF a >= b
             THEN DivDigits(a, b * Pow2(up), Precision + 1, <<>>)
             ELSE DivDigits(a * Pow2(down), b, Precision + 1, <<>>)
    IN  RoundBits(q.bits, q.sticky, IF a >= b THEN up ELSE 0 - down)

\* digits of m * k, from the least significant digit of m upwards
RECURSIVE MulDigits(_, _, _, _, _)
MulDigits(m, k, i, carry, acc) ==
    IF i = 0 THEN IntBits(carry) \o acc
    ELSE LET t == m[i] * k + carry
         IN  IF t % 2 = 0
             THEN MulDigits(m, k, i - 1, t \div 2, <<0>> \o acc)
             ELSE MulDigits(m, k, i - 1, t \div 2, <<1>> \o acc)

\* k * x for an int k > 0 and a float x (k is exact as a float)
FloatMulInt(k, x) ==
    LET prod == MulDigits(x.m, k, Precision, 0, <<>>)
    IN  RoundBits(prod, FALSE, x.e + (Len(prod) - Precision))

\* x > y
FloatGt(x, y) ==
    \/ x.e > y.e
    \/ /\ x.e = y.e
       /\ \E i \in 1..Precision :
             /\ x.m[i] > y.m[i]
             /\ \A j \in 1..(i - 1) : x.m[j] = y.m[j]

\* int(x): truncation
FloatToInt(x) == IF x.e < 0 THEN 0 ELSE BitsToInt(SubSeq(x.m, 1, x.e + 1))

\* the float 0.0
FloatZero == [e |-> 0, m |-> <<>>]
IsZero(x) == x.m = <<>>

Zeros(n) == [i \in 1..n |-> 0]

\* a + b for digit sequences of one length; the result is one digit longer
RECURSIVE AddBits(_, _, _, _, _)
AddBits(a, b, i, carry, acc) ==
    IF i = 0 THEN <<carry>> \o acc
    ELSE LET t == a[i] + b[i] + carry
         IN  IF t % 2 = 0
             THEN AddBits(a, b, i - 1, t \div 2, <<0>> \o acc)
             ELSE AddBits(a, b, i - 1, t \div 2, <<1>> \o acc)

\* a - b for digit sequences of one length, a >= b
RECURSIVE SubBits(_, _, _, _, _)
SubBits(a, b, i, borrow, acc) ==
    IF i = 0 THEN acc
    ELSE LET t == a[i] - b[i] - borrow
         IN  IF t % 2 = 0
             THEN SubBits(a, b, i - 1, IF t < 0 THEN 1 ELSE 0, <<0>> \o acc)
             ELSE SubBits(a, b, i - 1, IF t < 0 THEN 1 ELSE 0, <<1>> \o acc)

\* the digits from the first 1 on, and how many zeros preceded it
LeadingZeros(b) ==
    IF \A i \in 1..Len(b) : b[i] = 0 THEN Len(b)
    ELSE (CHOOSE i \in 1..Len(b) : b[i] = 1 /\ \A j \in 1..(i - 1) : b[j] = 0) - 1

\* x + y for floats x >= y > 0
FloatAddOrdered(x, y) ==
    LET shift == x.e - y.e
        sum == AddBits(x.m \o Zeros(shift), Zeros(shift) \o y.m,
                       Precision + shift, 0, <<>>)
        lead == LeadingZeros(sum)
    IN  RoundBits(SubSeq(sum, lead + 1, Len(sum)), FALSE, x.e + 1 - lead)

\* x > y for floats x, y >= 0
Greater(x, y) ==
    IF IsZero(x) THEN FALSE ELSE IF IsZero(y) THEN TRUE ELSE FloatGt(x, y)

\* x + y for floats x, y >= 0
Plus(x, y) ==
    IF IsZero(x) THEN y
    ELSE IF IsZero(y) THEN x
    ELSE IF Greater(y, x) THEN FloatAddOrdered(y, x)
    ELSE FloatAddOrdered(x, y)

\* x - y for floats x >= y >= 0
Minus(x, y) ==
    IF IsZero(y) THEN x
    ELSE IF x = y THEN FloatZero
    ELSE LET shift == x.e - y.e
             diff == SubBits(x.m \o Zeros(shift), Zeros(shift) \o y.m,
                             Precision + shift, 0, <<>>)
             lead == LeadingZeros(diff)
         IN  RoundBits(SubSeq(diff, lead + 1, Len(diff)), FALSE, x.e - lead)

Max(a, b) == IF a >= b THEN a ELSE b
Min(a, b) == IF a <= b THEN a ELSE b

----------------------------------------------------------------------------
(* _resize_and_crop, lines 326-346 *)

WiderThanTargetSwapped(cw, ch, W, H) == FloatGt(FloatDiv(W, H), FloatDiv(cw, ch))

\* line 332
WiderThanTarget(cw, ch, W, H) == FloatGt(FloatDiv(cw, ch), FloatDiv(W, H))

\* lines 332-337: the size handed to clip.resized
ScaledSize(cw, ch, W, H) ==
    IF WiderThanTarget(cw, ch, W, H)
    THEN <<FloatToInt(FloatMulInt(cw, FloatDiv(H, ch))), H>>
    ELSE <<W, FloatToInt(FloatMulInt(ch, FloatDiv(W, cw)))>>

\* lines 341-342
CropOrigin(scaled, target) == Max(0, (scaled - target) \div 2)

\* clip.cropped(x1, y1, x2, y2): the frame is sliced, so a window that
\* reaches past the frame yields what is left of the frame
CroppedSize(nw, nh, cx1, cy1, cx2, cy2) ==
    <<Max(0, Min(cx2, nw) - cx1), Max(0, Min(cy2, nh) - cy1)>>

\* lines 328-339
ResizeScale ==
    /\ rpc = "scale"
    /\ new_width' = ScaledSize(clip_w, clip_h, width, height)[1]
    /\ new_height' = ScaledSize(clip_w, clip_h, width, height)[2]
    /\ rpc' = "crop"
    /\ UNCHANGED <<width, height, clip_w, clip_h, x1, y1, x2, y2, out_size>>
    /\ ResFrame

\* lines 341-346
ResizeCrop ==
    /\ rpc = "crop"
    /\ x1' = CropOrigin(new_width, width)
    /\ y1' = CropOrigin(new_height, height)
    /\ x2' = CropOrigin(new_width, width) + width
    /\ y2' = CropOrigin(new_height, height) + height
    /\ out_size' = CroppedSize(new_width, new_height,
                               CropOrigin(new_width, width),
                               CropOrigin(new_height, height),
                               CropOrigin(new_width, width) + width,
                               CropOrigin(new_height, height) + height)
    /\ rpc' = "done"
    /\ UNCHANGED <<width, height, clip_w, clip_h, new_width, new_height>>
    /\ ResFrame

ResIdle ==
    /\ rpc = "idle"
    /\ width = 0 /\ height = 0 /\ clip_w = 0 /\ clip_h = 0
    /\ new_width = 0 /\ new_height = 0
    /\ x1 = 0 /\ y1 = 0 /\ x2 = 0 /\ y2 = 0
    /\ out_size = <<0, 0>>

----------------------------------------------------------------------------
(* _create_base_video, lines 291-324 *)

\* lines 304-306: the duration the clip is accepted with
AcceptedDuration(d, remaining) == IF d > remaining THEN remaining ELSE d

RECURSIVE SumDur(_)
SumDur(cs) == IF cs = <<>> THEN 0 ELSE cs[1].dur + SumDur(Tail(cs))

\* lines 314-324: the timeline built from the accepted clips
BaseVideo(cs, target) ==
    IF cs = <<>> THEN [kind |-> "color", dur |-> target]
    ELSE IF Len(cs) = 1 THEN [kind |-> "clip", dur |-> cs[1].dur]
    ELSE [kind |-> "concat", dur |-> SumDur(cs)]

\* lines 296-312: one iteration over clip_paths; VideoFileClip, the resize
\* or the trim may raise, and the except moves on to the next path
BaseVisit ==
    /\ bpc = "loop"
    /\ bi < Len(clip_paths)
    /\ base_total < target_duration
    /\ opened' = opened \cup {bi + 1}
    /\ \E raised \in BOOLEAN :
          IF raised
          THEN UNCHANGED <<base_clips, base_total>>
          ELSE LET d == AcceptedDuration(clip_paths[bi + 1], target_duration - base_total)
               IN  /\ base_clips' = Append(base_clips,
                          [src |-> bi + 1, dur |-> d, trimmed |-> d # clip_paths[bi + 1]])
                   /\ base_total' = base_total + d
    /\ bi' = bi + 1
    /\ UNCHANGED <<bpc, clip_paths, target_duration, base_video>>
    /\ BaseFrame

\* lines 297-298 (the break) or the end of the list, then lines 314-324
BaseFinish ==
    /\ bpc = "loop"
    /\ bi = Len(clip_paths) \/ base_total >= target_duration
    /\ base_video' = BaseVideo(base_clips, target_duration)
    /\ bpc' = "done"
    /\ UNCHANGED <<clip_paths, target_duration, bi, opened, base_clips, base_total>>
    /\ BaseFrame

\* lines 304-306 on floats: the clip, or clip.subclipped(0, remaining)
AcceptedFloat(d, remaining) == IF Greater(d, remaining) THEN remaining ELSE d

\* lines 296-312 with the durations as the floats they are: one iteration
BaseVisitFloat ==
    /\ bpc = "loop_float"
    /\ bi < Len(clip_paths)
    /\ Greater(target_duration, base_total)
    /\ opened' = opened \cup {bi + 1}
    /\ \E raised \in BOOLEAN :
          IF raised
          THEN UNCHANGED <<base_clips, base_total>>
          ELSE LET remaining == Minus(target_duration, base_total)
                   d == AcceptedFloat(clip_paths[bi + 1], remaining)
               IN  /\ base_clips' = Append(base_clips,
                          [src |-> bi + 1, dur |-> d,
                           trimmed |-> Greater(clip_paths[bi + 1], remaining)])
                   /\ base_total' = Plus(base_total, d)
    /\ bi' = bi + 1
    /\ UNCHANGED <<bpc, clip_paths, target_duration, base_video>>
    /\ BaseFrame

\* lines 297-298 (the break) or the end of the list
BaseFinishFloat ==
    /\ bpc = "loop_float"
    /\ bi = Len(clip_paths) \/ ~Greater(target_duration, base_total)
    /\ base_video' = [kind |-> IF base_clips = <<>> THEN "color" ELSE "clips",
                      dur |-> IF base_clips = <<>> THEN target_duration ELSE base_total]
    /\ bpc' = "done_float"
    /\ UNCHANGED <<clip_paths, target_duration, bi, opened, base_clips, base_total>>
    /\ BaseFrame

BaseIdle ==
    /\ bpc = "idle"
    /\ clip_paths = <<>>
    /\ target_duration = 0
    /\ bi = 0
    /\ opened = {}
    /\ base_clips = <<>>
    /\ base_total = 0
    /\ base_video = [kind |-> "none", dur |-> 0]

----------------------------------------------------------------------------
(* _add_audio, lines 400-423 *)

\* line 410
LoopsNeeded(v, m) == (v \div m) + 1

SubclippedUntrimmed(d, t_end) == d

\* line 412: duration of music.subclipped(0, t_end)
Subclipped(d, t_end) == t_end

\* line 423, also reached from the bare except of line 420
NarrationOnly == [tracks |-> <<"voiceover">>, dur |-> voiceover]

AudioRaisedPropagates ==
    /\ music_error' = TRUE
    /\ apc' = "failed"
    /\ UNCHANGED audio

\* an exception inside the try block: lines 420-423
AudioRaised ==
    /\ music_error' = TRUE
    /\ audio' = NarrationOnly
    /\ apc' = "done"

\* lines 403-405 with no music file, then line 423
AudioNoMusic ==
    /\ apc = "start"
    /\ music_path = "none"
    /\ audio' = NarrationOnly
    /\ apc' = "done"
    /\ UNCHANGED <<voiceover, music_path, asset_duration, music, loops_needed,
                   music_error>>
    /\ AudFrame

\* line 407
AudioLoad ==
    /\ apc = "start"
    /\ music_path = "file"
    /\ \E raised \in BOOLEAN :
          IF raised THEN AudioRaised /\ UNCHANGED music
          ELSE music' = asset_duration /\ apc' = "loop" /\ UNCHANGED <<audio, music_error>>
    /\ UNCHANGED <<voiceover, music_path, asset_duration, loops_needed>>
    /\ AudFrame

\* lines 409-411; a music clip of duration 0 makes line 410 divide by zero
AudioLoop ==
    /\ apc = "loop"
    /\ IF music < voiceover
       THEN \E raised \in BOOLEAN :
               IF raised \/ music = 0
               THEN AudioRaised /\ UNCHANGED <<music, loops_needed>>
               ELSE /\ loops_needed' = LoopsNeeded(voiceover, music)
                    /\ music' = music * LoopsNeeded(voiceover, music)
                    /\ apc' = "trim"
                    /\ UNCHANGED <<audio, music_error>>
       ELSE /\ apc' = "trim"
            /\ UNCHANGED <<music, loops_needed, audio, music_error>>
    /\ UNCHANGED <<voiceover, music_path, asset_duration>>
    /\ AudFrame

\* line 412; subclipped raises when the clip ends before t_end
AudioTrim ==
    /\ apc = "trim"
    /\ \E raised \in BOOLEAN :
          IF raised \/ music < voiceover
          THEN AudioRaised /\ UNCHANGED music
          ELSE /\ music' = Subclipped(music, voiceover)
               /\ apc' = "mix"
               /\ UNCHANGED <<audio, music_error>>
    /\ UNCHANGED <<voiceover, music_path, asset_duration, loops_needed>>
    /\ AudFrame

\* lines 415-419: CompositeAudioClip lasts as long as its longest track
AudioMix ==
    /\ apc = "mix"
    /\ \E raised \in BOOLEAN :
          IF raised THEN AudioRaised
          ELSE /\ audio' = [tracks |-> <<"voiceover", "music">>,
                            dur |-> Max(voiceover, music)]
               /\ apc' = "done"
               /\ UNCHANGED music_error
    /\ UNCHANGED <<voiceover, music_path, asset_duration, music, loops_needed>>
    /\ AudFrame

AudIdle ==
    /\ apc = "idle"
    /\ voiceover = 0
    /\ music_path = "none"
    /\ asset_duration = 0
    /\ music = 0
    /\ loops_needed = 0
    /\ music_error = FALSE
    /\ audio = [tracks |-> <<>>, dur |-> 0]

----------------------------------------------------------------------------
(* _download_single_clip, lines 182-236: workers that were handed the same  *)
(* (search_term, clip_index), hence the same cache file                     *)

Workers == 1..NumWorkers

\* the body of a download as the chunks of iter_content
Body(w, ok) == [k \in 1..NumChunks |-> [by |-> w, k |-> k, ok |-> ok]]

\* a file left by an earlier run that downloaded it completely
EarlierRun == 0

\* f.write(chunk) through a handle whose position is pos: the file grows,
\* with a hole if it was truncated below pos in the meantime
Hole == [by |-> 0 - 1, k |-> 0, ok |-> FALSE]
WriteAt(file, pos, chunk) ==
    [k \in 1..Max(Len(file), pos + 1) |->
        IF k = pos + 1 THEN chunk
        ELSE IF k <= Len(file) THEN file[k]
        ELSE Hole]

\* lines 235-236, 201 and 233: (None, 0)
ReturnNone(w) ==
    /\ wpc' = [wpc EXCEPT ![w] = "returned"]
    /\ wres' = [wres EXCEPT ![w] = "none"]

\* line 231: (str(clip_path), duration)
ReturnPath(w) ==
    /\ wpc' = [wpc EXCEPT ![w] = "returned"]
    /\ wres' = [wres EXCEPT ![w] = "path"]

\* lines 186-219: the search request and the choice of a file
WSearch(w) ==
    /\ wpc[w] = "search"
    /\ \E r \in {"raised", "empty", "found"} :
          IF r = "found"
          THEN wpc' = [wpc EXCEPT ![w] = "check"] /\ UNCHANGED wres
          ELSE ReturnNone(w)
    /\ UNCHANGED <<wpos, wstatus, requested, hit, cache_file>>
    /\ CacheFrame

WCheckIgnoresCache(w) ==
    /\ wpc[w] = "check"
    /\ hit' = [hit EXCEPT ![w] = cache_file.exists]
    /\ wpc' = [wpc EXCEPT ![w] = "request"]
    /\ UNCHANGED <<wres, wpos, wstatus, requested, cache_file>>
    /\ CacheFrame

\* lines 222-225 and, on a hit, line 231
WCheck(w) ==
    /\ wpc[w] = "check"
    /\ hit' = [hit EXCEPT ![w] = cache_file.exists]
    /\ IF cache_file.exists
       THEN ReturnPath(w)
       ELSE wpc' = [wpc EXCEPT ![w] = "request"] /\ UNCHANGED wres
    /\ UNCHANGED <<wpos, wstatus, requested, cache_file>>
    /\ CacheFrame

\* line 226: requests.get(video_url, stream=True, timeout=30); the status of
\* the response is not looked at
WRequest(w) ==
    /\ wpc[w] = "request"
    /\ requested' = [requested EXCEPT ![w] = TRUE]
    /\ \E r \in {"raised", "ok", "http_error"} :
          IF r = "raised"
          THEN ReturnNone(w) /\ UNCHANGED wstatus
          ELSE /\ wstatus' = [wstatus EXCEPT ![w] = r]
               /\ wpc' = [wpc EXCEPT ![w] = "open"]
               /\ UNCHANGED wres
    /\ UNCHANGED <<wpos, hit, cache_file>>
    /\ CacheFrame

\* line 227: open(clip_path, "wb") creates the file or truncates it
WOpen(w) ==
    /\ wpc[w] = "open"
    /\ cache_file' = File(<<>>)
    /\ wpc' = [wpc EXCEPT ![w] = "write"]
    /\ UNCHANGED <<wres, wpos, wstatus, requested, hit>>
    /\ CacheFrame

\* lines 228-229: one chunk; the stream may break, which ends the worker in
\* the except of line 235 with the file as it is
WWrite(w) ==
    /\ wpc[w] = "write"
    /\ wpos[w] < NumChunks
    /\ \E raised \in BOOLEAN :
          IF raised
          THEN ReturnNone(w) /\ UNCHANGED <<wpos, cache_file>>
          ELSE /\ cache_file' = File(WriteAt(cache_file.data, wpos[w],
                                   Body(w, wstatus[w] = "ok")[wpos[w] + 1]))
               /\ wpos' = [wpos EXCEPT ![w] = wpos[w] + 1]
               /\ UNCHANGED <<wpc, wres>>
    /\ UNCHANGED <<wstatus, requested, hit>>
    /\ CacheFrame

\* the with block of line 227 is left, then line 231
WClose(w) ==
    /\ wpc[w] = "write"
    /\ wpos[w] = NumChunks
    /\ ReturnPath(w)
    /\ UNCHANGED <<wpos, wstatus, requested, hit, cache_file>>
    /\ CacheFrame

CacheIdle ==
    /\ wpc = <<>>
    /\ wres = <<>>
    /\ wpos = <<>>
    /\ wstatus = <<>>
    /\ requested = <<>>
    /\ hit = <<>>
    /\ cache_file = Missing

----------------------------------------------------------------------------
(* _get_stock_footage_parallel, lines 240-248, and the cache key of         *)
(* _download_single_clip, line 222                                          *)

\* the most terms one acquisition selects: min(4, len(search_terms))
MaxSelected == 4

\* random.sample(population, k): k elements at distinct positions, in any order
Sample(population, k) ==
    {[j \in 1..k |-> population[f[j]]] :
        f \in {g \in [1..k -> 1..Len(population)] :
                  \A a, b \in 1..k : a # b => g[a] # g[b]}}

\* list(enumerate(selected_terms)) as (term, i) pairs, i from 0
Enumerate(terms) == [j \in 1..Len(terms) |-> <<terms[j], j - 1>>]

\* str.replace(' ', '_')
ReplaceSpaces(term) == [j \in 1..Len(term) |-> IF term[j] = " " THEN "_" ELSE term[j]]

\* str(i) for a list index below 10
Str(i) == <<<<"0", "1", "2", "3", "4", "5", "6", "7", "8", "9">>[i + 1]>>

CacheKeyWithoutIndex(term, i) == ReplaceSpaces(term) \o <<".", "m", "p", "4">>

\* line 222: f"{search_term.replace(' ', '_')}_{clip_index}.mp4"
CacheKey(term, i) == ReplaceSpaces(term) \o <<"_">> \o Str(i) \o <<".", "m", "p", "4">>

\* line 241
KeysSample ==
    /\ kpc = "sample"
    /\ selected_terms' \in Sample(search_terms, Min(MaxSelected, Len(search_terms)))
    /\ kpc' = "enumerate"
    /\ UNCHANGED <<search_terms, download_tasks, cache_keys>>
    /\ KeyFrame

\* line 248
KeysEnumerate ==
    /\ kpc = "enumerate"
    /\ download_tasks' = Enumerate(selected_terms)
    /\ kpc' = "submit"
    /\ UNCHANGED <<search_terms, selected_terms, cache_keys>>
    /\ KeyFrame

\* lines 252 and 222: every task is handed to a worker, which names its file
KeysSubmit ==
    /\ kpc = "submit"
    /\ cache_keys' = [j \in 1..Len(download_tasks) |->
                         CacheKey(download_tasks[j][1], download_tasks[j][2])]
    /\ kpc' = "done"
    /\ UNCHANGED <<search_terms, selected_terms, download_tasks>>
    /\ KeyFrame

KeyIdle ==
    /\ kpc = "off"
    /\ search_terms = <<>>
    /\ selected_terms = <<>>
    /\ download_tasks = <<>>
    /\ cache_keys = <<>>

----------------------------------------------------------------------------
(* src/dashboard/app.py: POST /api/create, lines 65-85, and the background *)
(* task _create_video_task, lines 88-157                                   *)

Requests == 1..NumRequests

\* the thread of another request was started and has not finished
OtherTaskUnfinished(r) ==
    \E q \in Requests \ {r} : thread[q] \in {"started", "running"}

\* the request reaches the server
RequestArrive(r) ==
    /\ handler[r] = "unsent"
    /\ handler' = [handler EXCEPT ![r] = "arrived"]
    /\ arrived_late' = [arrived_late EXCEPT ![r] = OtherTaskUnfinished(r)]
    /\ UNCHANGED <<is_running, thread>>
    /\ DashFrame

\* app.py lines 70-71: if agent_status["is_running"]: return the error, 400
HandlerCheck(r) ==
    /\ handler[r] = "arrived"
    /\ handler' = [handler EXCEPT ![r] = IF is_running THEN "rejected" ELSE "checked"]
    /\ UNCHANGED <<is_running, thread, arrived_late>>
    /\ DashFrame

\* app.py lines 73-85: the thread is started and {"status": "started"} returned
HandlerStart(r) ==
    /\ handler[r] = "checked"
    /\ thread' = [thread EXCEPT ![r] = "started"]
    /\ handler' = [handler EXCEPT ![r] = "accepted"]
    /\ UNCHANGED <<is_running, arrived_late>>
    /\ DashFrame

\* app.py line 93, the first statement of the task
TaskBegin(r) ==
    /\ thread[r] = "started"
    /\ is_running' = TRUE
    /\ thread' = [thread EXCEPT ![r] = "running"]
    /\ UNCHANGED <<handler, arrived_late>>
    /\ DashFrame

\* app.py lines 94-157: the work, its except clause, and the finally
TaskEnd(r) ==
    /\ thread[r] = "running"
    /\ is_running' = FALSE
    /\ thread' = [thread EXCEPT ![r] = "finished"]
    /\ UNCHANGED <<handler, arrived_late>>
    /\ DashFrame

DashIdle ==
    /\ is_running = FALSE
    /\ handler = <<>>
    /\ thread = <<>>
    /\ arrived_late = <<>>

----------------------------------------------------------------------------
(* Renders that overlap in time (main.py lines 118-152, app.py lines       *)
(* 118-133): the files they keep in temp/ and output/                      *)

Renders == 1..NumRenders

\* a file: its name and the render whose content it holds
TempFile(name, r) == [name |-> name, by |-> r]
VoiceFile(r) == TempFile(<<"voice", r>>, r)
FallbackFile(r) == TempFile(<<"bg_fallback">>, r)

\* writing a file replaces whatever had that name
Written(dir, f) == {g \in dir : g.name # f.name} \cup {f}

\* voice_generator.py lines 67-81: the narration is written into temp/
RenderVoice(r) ==
    /\ render_pc[r] = "start"
    /\ temp_dir' = Written(temp_dir, VoiceFile(r))
    /\ needs' = [needs EXCEPT ![r] = needs[r] \cup {VoiceFile(r)}]
    /\ render_pc' = [render_pc EXCEPT ![r] = "voiced"]
    /\ UNCHANGED <<out_name, output_dir>>
    /\ TwoFrame

\* video_creator.py line 108: footage from the cache, or lines 270-289: the
\* fallback clip written to temp/bg_fallback.mp4
RenderFootage(r) ==
    /\ render_pc[r] = "voiced"
    /\ \E used_fallback \in BOOLEAN :
          IF used_fallback
          THEN /\ temp_dir' = Written(temp_dir, FallbackFile(r))
               /\ needs' = [needs EXCEPT ![r] = needs[r] \cup {FallbackFile(r)}]
          ELSE UNCHANGED <<temp_dir, needs>>
    /\ render_pc' = [render_pc EXCEPT ![r] = "footage"]
    /\ UNCHANGED <<out_name, output_dir>>
    /\ TwoFrame

\* video_creator.py lines 112-162: the files are read while the output file
\* is encoded under its name
RenderEncode(r) ==
    /\ render_pc[r] = "footage"
    /\ output_dir' = [output_dir EXCEPT ![out_name[r]] = r]
    /\ needs' = [needs EXCEPT ![r] = {}]
    /\ render_pc' = [render_pc EXCEPT ![r] = "encoded"]
    /\ UNCHANGED <<temp_dir, out_name>>
    /\ TwoFrame

\* video_creator.py lines 444-450, called at main.py line 152 and app.py
\* line 133: every file in temp/ is unlinked
RenderCleanup(r) ==
    /\ render_pc[r] = "encoded"
    /\ temp_dir' = {}
    /\ render_pc' = [render_pc EXCEPT ![r] = "cleaned"]
    /\ UNCHANGED <<needs, out_name, output_dir>>
    /\ TwoFrame

TwoIdle ==
    /\ render_pc = <<>>
    /\ temp_dir = {}
    /\ needs = <<>>
    /\ out_name = <<>>
    /\ output_dir = <<>>

----------------------------------------------------------------------------
(* create_video, lines 89-180, with _get_stock_footage_parallel, lines     *)
(* 238-268, and _create_fallback_backgrounds, lines 270-289                *)

NumTasks == 4
Buffer == 5

Tasks == 1..NumTasks

\* what _download_single_clip returns: (None, 0), or the cached path with
\* the duration the search result states
NoClip == [path |-> "none", dur |-> 0]
Outcomes == {NoClip} \cup {[path |-> "file", dur |-> d] : d \in 1..MaxClipDur}

RECURSIVE Durations(_)
Durations(cs) == IF cs = <<>> THEN <<>> ELSE <<cs[1].dur>> \o Durations(Tail(cs))

\* lines 167-174: the dict create_video returns
RenderResult(d) ==
    [output_path |-> "output/short.mp4", duration |-> d, resolution |-> "720x1280",
     title |-> "", description |-> "", hashtags |-> <<>>]

\* lines 176-180: the exception of a step is printed and raised again; the
\* except clause closes nothing
Fail(step) ==
    /\ ppc' = "Failed"
    /\ failed_in' = step

\* line 112: _create_base_video(video_clips, duration) is entered
EnterCompose(cs) ==
    /\ ppc' = "Composing"
    /\ bpc' = "loop"
    /\ clip_paths' = Durations(cs)
    /\ target_duration' = duration
    /\ UNCHANGED <<bi, opened, base_clips, base_total, base_video>>

\* lines 96-108 and 240-252: every task is submitted to the pool of 4 workers
CreateStart ==
    /\ ppc = "Idle"
    /\ ppc' = "AcquiringFootage"
    /\ task' = [i \in Tasks |-> "running"]
    /\ collecting' = TRUE
    /\ UNCHANGED <<outcome, clips, total_duration, fallback, failed_in, result>>
    /\ UNCHANGED <<elapsed, encodes, open_handles, output_file>>
    /\ UNCHANGED <<capVars, cacheVars, keyVars, dashVars, twoVars, resVars, baseVars, audVars>>

\* how the body of _download_single_clip can end: with one of the returns of
\* lines 201, 231 and 233, or with an exception inside the try block
Raised == [path |-> "raised", dur |-> 0]
WorkerEndings == Outcomes \cup {Raised}

ExceptClauseMissing(e) == e

\* lines 235-236: except Exception returns (None, 0)
ExceptClause(e) == IF e = Raised THEN NoClip ELSE e

\* line 256: if clip_path
ClipPathGiven(o) == o.path # "none"

\* lines 182-236: a worker returns from _download_single_clip
DownloadReturn(i) ==
    /\ ppc = "AcquiringFootage"
    /\ task[i] = "running"
    /\ \E e \in WorkerEndings : outcome' = [outcome EXCEPT ![i] = ExceptClause(e)]
    /\ task' = [task EXCEPT ![i] = "returned"]
    /\ UNCHANGED <<ppc, collecting, clips, total_duration, fallback, failed_in, result>>
    /\ UNCHANGED <<elapsed, encodes, open_handles, output_file>>
    /\ UNCHANGED <<capVars, cacheVars, keyVars, dashVars, twoVars, resVars, baseVars, audVars>>

\* a unit of wall-clock time passes while a worker is inside
\* _download_single_clip; nothing in lines 251-262 bounds the wait
Tick ==
    /\ ppc = "AcquiringFootage"
    /\ \E i \in Tasks : task[i] = "running"
    /\ elapsed < MaxElapsed
    /\ elapsed' = elapsed + 1
    /\ UNCHANGED <<ppc, task, outcome, collecting, clips, total_duration, fallback,
                   failed_in, result, encodes, open_handles, output_file>>
    /\ UNCHANGED <<capVars, cacheVars, keyVars, dashVars, twoVars, resVars, baseVars, audVars>>

\* lines 254-262: as_completed hands over a finished future, and
\* future.result() returns what the worker returned or raises what it raised;
\* the loop ends at the break or when every future has been handed over
Collect(i) ==
    /\ ppc = "AcquiringFootage"
    /\ collecting
    /\ task[i] = "returned"
    /\ IF outcome[i] = Raised
       THEN /\ Fail("download")
            /\ UNCHANGED <<clips, total_duration, collecting>>
       ELSE LET got == ClipPathGiven(outcome[i])
                total == IF got THEN total_duration + outcome[i].dur
                         ELSE total_duration
            IN  /\ clips' = IF got
                            THEN Append(clips, [term |-> i, dur |-> outcome[i].dur])
                            ELSE clips
                /\ total_duration' = total
                /\ collecting' = ~ \/ total >= duration + Buffer
                                   \/ \A j \in Tasks \ {i} : task[j] = "collected"
                /\ UNCHANGED <<ppc, failed_in>>
    /\ task' = [task EXCEPT ![i] = "collected"]
    /\ UNCHANGED <<outcome, fallback, result>>
    /\ UNCHANGED <<elapsed, encodes, open_handles, output_file>>
    /\ UNCHANGED <<capVars, cacheVars, keyVars, dashVars, twoVars, resVars, baseVars, audVars>>

\* the with block is left once every worker has returned (the executor's
\* shutdown waits for them)
ExecutorClosed ==
    /\ ppc = "AcquiringFootage"
    /\ ~collecting
    /\ \A i \in Tasks : task[i] # "running"

\* lines 264-268 with clips, then line 112
AcquireReturn ==
    /\ ExecutorClosed
    /\ clips # <<>>
    /\ EnterCompose(clips)
    /\ UNCHANGED <<task, outcome, collecting, clips, total_duration, fallback,
                   failed_in, result>>
    /\ UNCHANGED <<elapsed, encodes, open_handles, output_file>>
    /\ UNCHANGED <<capVars, cacheVars, keyVars, dashVars, twoVars, resVars, audVars>>

\* lines 264-266 and 270-289 without clips: the color clip is encoded into
\* temp/bg_fallback.mp4; write_videofile may raise, and nothing catches it
\* before the except of create_video
Fallback ==
    /\ ExecutorClosed
    /\ clips = <<>>
    /\ \E raised \in BOOLEAN :
          IF raised
          THEN /\ Fail("fallback")
               /\ UNCHANGED <<clips, fallback, baseVars>>
          ELSE /\ clips' = <<[term |-> 0, dur |-> duration]>>
               /\ fallback' = TRUE
               /\ EnterCompose(<<[term |-> 0, dur |-> duration]>>)
               /\ UNCHANGED failed_in
    /\ UNCHANGED <<task, outcome, collecting, total_duration, result>>
    /\ UNCHANGED <<elapsed, encodes, open_handles, output_file>>
    /\ UNCHANGED <<capVars, cacheVars, keyVars, dashVars, twoVars, resVars, audVars>>

\* line 112 returns the base video, which holds the source clips opened at
\* line 301; then line 116: AudioFileClip(voice_data["audio_path"])
LoadVoiceover ==
    /\ ppc = "Composing"
    /\ bpc = "done"
    /\ \E raised \in BOOLEAN :
          IF raised
          THEN /\ Fail("voiceover")
               /\ open_handles' = open_handles \cup {"base_video"}
          ELSE /\ ppc' = "SegmentingCaptions"
               /\ open_handles' = open_handles \cup {"base_video", "voiceover"}
               /\ UNCHANGED failed_in
    /\ UNCHANGED <<task, outcome, collecting, clips, total_duration, fallback, result>>
    /\ UNCHANGED <<elapsed, encodes, output_file>>
    /\ UNCHANGED <<capVars, cacheVars, keyVars, dashVars, twoVars, resVars, baseVars, audVars>>

AddCaptionsSkipsMixing ==
    /\ ppc = "SegmentingCaptions"
    /\ ppc' = "Rendering"
    /\ UNCHANGED <<task, outcome, collecting, clips, total_duration, fallback,
                   failed_in, result>>
    /\ UNCHANGED <<elapsed, encodes, open_handles, output_file>>
    /\ UNCHANGED <<capVars, cacheVars, keyVars, dashVars, twoVars, resVars, baseVars, audVars>>

\* lines 118-128
AddCaptions ==
    /\ ppc = "SegmentingCaptions"
    /\ ppc' = "MixingAudio"
    /\ UNCHANGED <<task, outcome, collecting, clips, total_duration, fallback,
                   failed_in, result>>
    /\ UNCHANGED <<elapsed, encodes, open_handles, output_file>>
    /\ UNCHANGED <<capVars, cacheVars, keyVars, dashVars, twoVars, resVars, baseVars, audVars>>

\* lines 130-132: _add_audio returns the final video; with a music file,
\* line 408 has opened it
AddAudio ==
    /\ ppc = "MixingAudio"
    /\ ppc' = "Rendering"
    /\ \E music_opened \in BOOLEAN :
          open_handles' = open_handles \cup {"final_video"}
                             \cup (IF music_opened THEN {"music"} ELSE {})
    /\ UNCHANGED <<task, outcome, collecting, clips, total_duration, fallback,
                   failed_in, result>>
    /\ UNCHANGED <<elapsed, encodes, output_file>>
    /\ UNCHANGED <<capVars, cacheVars, keyVars, dashVars, twoVars, resVars, baseVars, audVars>>

\* what lines 160-162 close
ClosedAtCleanup == {"final_video", "base_video", "voiceover"}

\* lines 134-174: one call of write_videofile; when it raises, the file it
\* had started may be left at output_path; otherwise lines 160-162 close the
\* three clips and the dict is returned
Render ==
    /\ ppc = "Rendering"
    /\ encodes' = encodes + 1
    /\ \E raised \in BOOLEAN :
          IF raised
          THEN /\ Fail("render")
               /\ \E left \in {"absent", "partial"} : output_file' = left
               /\ UNCHANGED <<result, open_handles>>
          ELSE /\ ppc' = "Done"
               /\ output_file' = "complete"
               /\ open_handles' = open_handles \ ClosedAtCleanup
               /\ result' = RenderResult(duration)
               /\ UNCHANGED failed_in
    /\ UNCHANGED <<task, outcome, collecting, clips, total_duration, fallback, elapsed>>
    /\ UNCHANGED <<capVars, cacheVars, keyVars, dashVars, twoVars, resVars, baseVars, audVars>>

PipeIdle ==
    /\ ppc = "off"
    /\ task = <<>>
    /\ outcome = <<>>
    /\ collecting = FALSE
    /\ clips = <<>>
    /\ total_duration = 0
    /\ fallback = FALSE
    /\ failed_in = "none"
    /\ result = <<>>
    /\ elapsed = 0
    /\ encodes = 0
    /\ open_handles = {}
    /\ output_file = "absent"

----------------------------------------------------------------------------
(* Inputs of _add_captions *)

Plain == <<"a">>
WordSet == {Plain, <<"b", ".">>, <<"c", "!">>, <<"d", "?">>, <<".", "e">>}
CapWordSet == {Plain, <<"b", ".">>}

RECURSIVE SeqsUpTo(_, _)
SeqsUpTo(S, n) ==
    IF n = 0 THEN {<<>>}
    ELSE LET shorter == SeqsUpTo(S, n - 1)
         IN  shorter \cup {Append(q, x) : q \in {r \in shorter : Len(r) = n - 1}, x \in S}

\* 5k words with no sentence-terminal punctuation before the last one
PlainRuns ==
    {[i \in 1..(MaxGroup * k) |-> IF i = MaxGroup * k THEN last ELSE Plain] :
        k \in 1..MaxK, last \in CapWordSet}

\* a word list as a script: single spaces, or padded with extra whitespace
ScriptOf(ws, padded) ==
    IF padded THEN <<" ">> \o Join(ws, <<" ", "\t">>) \o <<"\t">>
    ELSE Join(ws, <<" ">>)

CapIdle ==
    /\ words = <<>>
    /\ wi = 0
    /\ current = <<>>
    /\ segments = <<>>
    /\ flushed = FALSE
    /\ segment_duration = Zero
    /\ ci = 0
    /\ caption_clips = <<>>
    /\ layers = <<>>

InitSegment ==
    /\ cpc = "split"
    /\ \E ws \in SeqsUpTo(WordSet, MaxWords), padded \in BOOLEAN :
          script = ScriptOf(ws, padded)
    /\ duration = 1
    /\ CapIdle
    /\ CacheIdle /\ KeyIdle /\ DashIdle /\ TwoIdle /\ ResIdle /\ BaseIdle /\ AudIdle /\ PipeIdle

NextSegment == CaptionsSplit \/ CaptionsGroupWord \/ CaptionsFlush

SpecSegment == InitSegment /\ [][NextSegment]_vars

InitCaptions ==
    /\ cpc = "split"
    /\ \E ws \in SeqsUpTo(CapWordSet, MaxCapWords) \cup PlainRuns, padded \in BOOLEAN :
          script = ScriptOf(ws, padded)
    /\ duration \in 1..MaxDn
    /\ CapIdle
    /\ CacheIdle /\ KeyIdle /\ DashIdle /\ TwoIdle /\ ResIdle /\ BaseIdle /\ AudIdle /\ PipeIdle

NextCaptions ==
    CaptionsSplit \/ CaptionsGroupWord \/ CaptionsFlush \/ CaptionsOverlay \/ CaptionsCompose

SpecCaptions == InitCaptions /\ [][NextCaptions]_vars

CapInactive ==
    /\ cpc = "idle"
    /\ script = <<>>
    /\ duration = 0
    /\ CapIdle

\* self.width, self.height: fast mode (line 67), and the configured
\* OUTPUT_RESOLUTION default (config.py line 32)
Targets == {<<720, 1280>>, <<1080, 1920>>}

Aspects == {<<9, 16>>, <<4, 3>>, <<16, 9>>, <<1, 1>>, <<3, 4>>}
SourceSizes == {<<a[1] * j, a[2] * j>> : a \in Aspects, j \in 1..MaxScale}

InitResize ==
    /\ rpc = "scale"
    /\ \E t \in Targets : width = t[1] /\ height = t[2]
    /\ \E s \in SourceSizes : clip_w = s[1] /\ clip_h = s[2]
    /\ new_width = 0 /\ new_height = 0
    /\ x1 = 0 /\ y1 = 0 /\ x2 = 0 /\ y2 = 0
    /\ out_size = <<0, 0>>
    /\ CapInactive /\ CacheIdle /\ KeyIdle /\ DashIdle /\ TwoIdle /\ BaseIdle /\ AudIdle /\ PipeIdle

NextResize == ResizeScale \/ ResizeCrop

SpecResize == InitResize /\ [][NextResize]_vars

InitCompose ==
    /\ bpc = "loop"
    /\ clip_paths \in SeqsUpTo(1..MaxClipDur, MaxClips)
    /\ target_duration \in 1..MaxTarget
    /\ bi = 0
    /\ opened = {}
    /\ base_clips = <<>>
    /\ base_total = 0
    /\ base_video = [kind |-> "none", dur |-> 0]
    /\ CapInactive /\ CacheIdle /\ KeyIdle /\ DashIdle /\ TwoIdle /\ ResIdle /\ AudIdle /\ PipeIdle

NextCompose == BaseVisit \/ BaseFinish

SpecCompose == InitCompose /\ [][NextCompose]_vars

\* durations in tenths of a second, as floats
Tenths(k) == FloatDiv(k, 10)

InitComposeFloat ==
    /\ bpc = "loop_float"
    /\ \E ks \in SeqsUpTo(1..MaxClipTenths, MaxFloatClips) :
          clip_paths = [j \in 1..Len(ks) |-> Tenths(ks[j])]
    /\ \E n \in 1..MaxTargetTenths : target_duration = Tenths(n)
    /\ bi = 0
    /\ opened = {}
    /\ base_clips = <<>>
    /\ base_total = FloatZero
    /\ base_video = [kind |-> "none", dur |-> 0]
    /\ CapInactive /\ CacheIdle /\ KeyIdle /\ DashIdle /\ TwoIdle /\ ResIdle /\ AudIdle /\ PipeIdle

NextComposeFloat == BaseVisitFloat \/ BaseFinishFloat

SpecComposeFloat == InitComposeFloat /\ [][NextComposeFloat]_vars

InitAudio ==
    /\ apc = "start"
    /\ voiceover \in 1..MaxVoice
    /\ \/ music_path = "none" /\ asset_duration = 0
       \/ music_path = "file" /\ asset_duration \in 0..MaxMusic
    /\ music = 0
    /\ loops_needed = 0
    /\ music_error = FALSE
    /\ audio = [tracks |-> <<>>, dur |-> 0]
    /\ CapInactive /\ CacheIdle /\ KeyIdle /\ DashIdle /\ TwoIdle /\ ResIdle /\ BaseIdle /\ PipeIdle

NextAudio == AudioNoMusic \/ AudioLoad \/ AudioLoop \/ AudioTrim \/ AudioMix

SpecAudio == InitAudio /\ [][NextAudio]_vars

InitCache ==
    /\ wpc = [w \in Workers |-> "search"]
    /\ wres = [w \in Workers |-> "pending"]
    /\ wpos = [w \in Workers |-> 0]
    /\ wstatus = [w \in Workers |-> "none"]
    /\ requested = [w \in Workers |-> FALSE]
    /\ hit = [w \in Workers |-> FALSE]
    /\ cache_file \in {Missing, File(Body(EarlierRun, TRUE))}
    /\ CapInactive /\ KeyIdle /\ DashIdle /\ TwoIdle /\ ResIdle /\ BaseIdle /\ AudIdle /\ PipeIdle

NextCache ==
    \E w \in Workers :
        WSearch(w) \/ WCheck(w) \/ WRequest(w) \/ WOpen(w) \/ WWrite(w) \/ WClose(w)

SpecCache == InitCache /\ [][NextCache]_vars

\* search terms as character sequences; two of them differ only by ' ' / '_'
TermSet == {<<"a", " ", "b">>, <<"a", "_", "b">>, <<"c">>, <<"d", " ", "e">>, <<"f">>}

\* the lists of a niche: terms without repetition, as in NICHE_SEARCH_TERMS
TermLists == {l \in SeqsUpTo(TermSet, MaxTerms) :
                 l # <<>> /\ \A a, b \in 1..Len(l) : a # b => l[a] # l[b]}

InitKeys ==
    /\ kpc = "sample"
    /\ search_terms \in TermLists
    /\ selected_terms = <<>>
    /\ download_tasks = <<>>
    /\ cache_keys = <<>>
    /\ CapInactive /\ CacheIdle /\ DashIdle /\ TwoIdle /\ ResIdle /\ BaseIdle /\ AudIdle /\ PipeIdle

NextKeys == KeysSample \/ KeysEnumerate \/ KeysSubmit

SpecKeys == InitKeys /\ [][NextKeys]_vars

InitDashboard ==
    /\ is_running = FALSE
    /\ handler = [r \in Requests |-> "unsent"]
    /\ thread = [r \in Requests |-> "none"]
    /\ arrived_late = [r \in Requests |-> FALSE]
    /\ CapInactive /\ CacheIdle /\ KeyIdle /\ TwoIdle /\ ResIdle /\ BaseIdle /\ AudIdle /\ PipeIdle

NextDashboard ==
    \E r \in Requests :
        \/ RequestArrive(r)
        \/ HandlerCheck(r)
        \/ HandlerStart(r)
        \/ TaskBegin(r)
        \/ TaskEnd(r)

SpecDashboard == InitDashboard /\ [][NextDashboard]_vars

\* output names short_<niche>_<timestamp>: renders of one niche that start in
\* the same second get the same name
OutputNames == 1..NumRenders

InitTwoRenders ==
    /\ render_pc = [r \in Renders |-> "start"]
    /\ temp_dir = {}
    /\ needs = [r \in Renders |-> {}]
    /\ out_name \in [Renders -> OutputNames]
    /\ output_dir = [n \in OutputNames |-> 0]
    /\ CapInactive /\ CacheIdle /\ KeyIdle /\ DashIdle /\ ResIdle /\ BaseIdle /\ AudIdle /\ PipeIdle

NextTwoRenders ==
    \E r \in Renders :
        \/ RenderVoice(r)
        \/ RenderFootage(r)
        \/ RenderEncode(r)
        \/ RenderCleanup(r)

SpecTwoRenders == InitTwoRenders /\ [][NextTwoRenders]_vars



Init ==
    /\ ppc = "Idle"
    /\ duration \in 1..MaxDn
    /\ task = [i \in Tasks |-> "queued"]
    /\ outcome = [i \in Tasks |-> NoClip]
    /\ collecting = FALSE
    /\ clips = <<>>
    /\ total_duration = 0
    /\ fallback = FALSE
    /\ failed_in = "none"
    /\ result = <<>>
    /\ elapsed = 0
    /\ encodes = 0
    /\ open_handles = {}
    /\ output_file = "absent"
    /\ cpc = "idle" /\ script = <<>> /\ CapIdle
    /\ CacheIdle /\ KeyIdle /\ DashIdle /\ TwoIdle /\ ResIdle /\ BaseIdle /\ AudIdle

Next ==
    \/ CreateStart
    \/ \E i \in Tasks : DownloadReturn(i)
    \/ \E i \in Tasks : Collect(i)
    \/ AcquireReturn
    \/ Fallback
    \/ BaseVisit
    \/ BaseFinish
    \/ LoadVoiceover
    \/ AddCaptions
    \/ AddAudio
    \/ Render

Spec == Init /\ [][Next]_vars

\* create_video called with voice_data["duration"] <= 0
InitInvalid ==
    /\ ppc = "Idle"
    /\ duration \in (0 - MaxInvalid)..0
    /\ task = [i \in Tasks |-> "queued"]
    /\ outcome = [i \in Tasks |-> NoClip]
    /\ collecting = FALSE
    /\ clips = <<>>
    /\ total_duration = 0
    /\ fallback = FALSE
    /\ failed_in = "none"
    /\ result = <<>>
    /\ elapsed = 0
    /\ encodes = 0
    /\ open_handles = {}
    /\ output_file = "absent"
    /\ cpc = "idle" /\ script = <<>> /\ CapIdle
    /\ CacheIdle /\ KeyIdle /\ DashIdle /\ TwoIdle /\ ResIdle /\ BaseIdle /\ AudIdle

\* the steps of Next; with a target <= 0 the loop of _create_base_video
\* breaks at line 297 before it visits a path, so BaseVisit has no part
NextInvalid ==
    \/ CreateStart
    \/ \E i \in Tasks : DownloadReturn(i)
    \/ \E i \in Tasks : Collect(i)
    \/ AcquireReturn
    \/ Fallback
    \/ BaseFinish
    \/ LoadVoiceover
    \/ AddCaptions
    \/ AddAudio
    \/ Render

SpecInvalid == InitInvalid /\ [][NextInvalid]_vars

\* the acquisition stage alone, with the time it takes
NextAcquire ==
    \/ CreateStart
    \/ \E i \in Tasks : DownloadReturn(i)
    \/ \E i \in Tasks : Collect(i)
    \/ Tick
    \/ AcquireReturn
    \/ Fallback

SpecAcquire == Init /\ [][NextAcquire]_vars

----------------------------------------------------------------------------
(* Properties *)

\* C1: for every narration duration Dn > 0 and every list of clip paths,
\* unusable and too short clips included, the timeline _create_base_video
\* returns lasts at least Dn.
C1_TimelineCoversNarration ==
    (bpc = "done" /\ target_duration > 0) => base_video.dur >= target_duration

\* the windows of the overlays, in order, tile [0, d]
WindowsTile(cs, d) ==
    /\ cs # <<>>
    /\ RatEq(cs[1].start, Zero)
    /\ \A k \in 1..(Len(cs) - 1) :
          RatEq(RatAdd(cs[k].start, cs[k].dur), cs[k + 1].start)
    /\ RatEq(RatAdd(cs[Len(cs)].start, cs[Len(cs)].dur), RatOfInt(d))

\* C2: for every non-empty script the caption overlays _add_captions places
\* have ordered, contiguous, non-overlapping windows, the first starting at 0
\* and the last ending at Dn, whatever the overlay construction did.
C2_CaptionWindowsPartition ==
    (cpc = "done" /\ words # <<>>) => WindowsTile(caption_clips, duration)

WordCount(segment) == Len(Split(segment))
LastWord(segment) == Split(segment)[WordCount(segment)]

\* C3: every caption segment has at most 5 words, and a segment closed
\* without a sentence-terminal word that is not the flushed remainder has
\* exactly 5.
C3_SegmentWordBound ==
    \A k \in 1..Len(segments) :
        /\ WordCount(segments[k]) <= 5
        /\ (/\ ~EndsWithTerminal(LastWord(segments[k]))
            /\ ~(flushed /\ k = Len(segments)))
           => WordCount(segments[k]) = 5

\* C3's case: a full group closed by the cap alone, followed by a shorter
\* flushed remainder that does not end a sentence either
C3_Witness ==
    /\ flushed
    /\ Len(segments) = 2
    /\ WordCount(segments[1]) = 5 /\ ~EndsWithTerminal(LastWord(segments[1]))
    /\ WordCount(segments[2]) < 5 /\ ~EndsWithTerminal(LastWord(segments[2]))

\* 5k words, none before the last ending a sentence
IsPlainRun(ws) ==
    /\ ws # <<>>
    /\ Len(ws) % 5 = 0
    /\ \A k \in 1..(Len(ws) - 1) : ~EndsWithTerminal(ws[k])

\* C4: a script of 5k words with no sentence-terminal punctuation before the
\* last word gives exactly k segments of 5 words, and the overlay of segment
\* i of the N segments has the window [i*Dn/N, (i+1)*Dn/N).
C4_PlainRunWindows ==
    (cpc \in {"overlay", "done"} /\ IsPlainRun(words)) =>
        /\ 5 * Len(segments) = Len(words)
        /\ \A k \in 1..Len(segments) : WordCount(segments[k]) = 5
        /\ \A k \in 1..Len(caption_clips) :
              LET c == caption_clips[k]
                  N == Len(segments)
              IN  /\ c.text = segments[c.seg + 1]
                  /\ RatEq(c.start, Rat(c.seg * duration, N))
                  /\ RatEq(RatAdd(c.start, c.dur), Rat((c.seg + 1) * duration, N))

\* C4's case: 20 words, 4 overlays placed
C4_Witness ==
    /\ cpc = "done"
    /\ Len(words) = 20
    /\ IsPlainRun(words)
    /\ Len(caption_clips) = 4
    /\ duration > 1

\* C5: for every source size and target, the scaled frame covers the target,
\* the crop window lies inside the scaled frame, and the returned clip is
\* exactly W x H.
C5_ExactTargetSize ==
    rpc = "done" =>
        /\ new_width >= width
        /\ new_height >= height
        /\ x2 <= new_width
        /\ y2 <= new_height
        /\ out_size = <<width, height>>

FourByThree == 3 * clip_w = 4 * clip_h

\* C6 as stated: a 4:3 source is scaled so that its width is the target
\* width W, its height is then cropped to H, and the result is W x H.
C6_FourByThreeScalesToWidth ==
    (rpc = "done" /\ FourByThree) =>
        /\ new_width = width
        /\ out_size = <<width, height>>

\* C6 amended: a 4:3 source is scaled so that its height is the target
\* height H, the scaled width is at least W, the width is then center-cropped
\* to W, and the result is W x H.
C6_FourByThreeScalesToHeight ==
    (rpc = "done" /\ FourByThree) =>
        /\ new_height = height
        /\ new_width >= width
        /\ y1 = 0 /\ y2 = height
        /\ x1 = (new_width - width) \div 2
        /\ x2 = x1 + width /\ x2 <= new_width
        /\ out_size = <<width, height>>

\* C6's case: a 4:3 source whose scaled width exceeds the target's
C6_Witness ==
    /\ rpc = "done"
    /\ FourByThree
    /\ new_width > width
    /\ x1 > 0

\* C7: when acquisition obtains no clip, the solid-background clip is
\* substituted without an error and the composed timeline lasts exactly Dn.
C7_FallbackNeverFails ==
    /\ ~(ppc = "Failed" /\ failed_in = "fallback")
    /\ (fallback /\ bpc = "done") => base_video.dur = duration

\* C8: the returned result carries usedFallback = true when the fallback
\* clip was substituted and usedFallback = false when real footage was used.
C8_ResultCarriesUsedFallback ==
    ppc = "Done" =>
        /\ "usedFallback" \in DOMAIN result
        /\ result.usedFallback = fallback

\* C9: the audio _add_audio attaches lasts exactly as long as the narration,
\* with no music, shorter, longer or equally long music, and music that
\* fails to load or mix.
C9_AudioDurationIsNarration ==
    apc = "done" => audio.dur = voiceover

\* C9's case: shorter music was looped, trimmed and mixed in
C9_Witness ==
    /\ apc = "done"
    /\ audio.tracks = <<"voiceover", "music">>
    /\ loops_needed > 1
    /\ asset_duration * (loops_needed - 1) < voiceover

\* C10: music lasting a third of the narration is repeated exactly 3 times
\* before the trim.
C10_ThirdOfNarrationLoopsThrice ==
    (loops_needed # 0 /\ 3 * asset_duration = voiceover) => loops_needed = 3

WroteAll(w) == wpc[w] = "returned" /\ wres[w] = "path" /\ wpos[w] = NumChunks

\* C20: two workers found the same cache file missing; once one of them has
\* written the file completely, the file is never truncated or rewritten.
C20_FirstWriterWins ==
    [][(\E w \in Workers : WroteAll(w)) => cache_file' = cache_file]_vars

\* C11: what _get_stock_footage_parallel returns is the fallback or a list of
\* downloaded clips whose source durations sum to at least D + 5.
C11_ReturnedListCoversBudget ==
    (ppc = "Composing" /\ ~fallback) => total_duration >= duration + Buffer

\* the terms whose worker came back with (None, 0)
FailedTerms == {i \in Tasks : task[i] \in {"returned", "collected"} /\ outcome[i] = NoClip}

\* the terms whose clip the as_completed loop was handed
CollectedClips == {i \in Tasks : task[i] = "collected" /\ outcome[i].path = "file"}

C13_BudgetMetCancelsDownloads ==
    [][(ppc = "AcquiringFootage" /\ ~collecting /\ total_duration >= duration + Buffer)
          => task' = task]_vars

\* C14: the acquisition stage never lasts longer than its overall budget.
C14_AcquisitionWithinBudget ==
    ppc = "AcquiringFootage" => elapsed <= StageBudget

\* the order of the stages of one invocation
StageOrder ==
    <<"Idle", "AcquiringFootage", "Composing", "SegmentingCaptions", "MixingAudio",
      "Rendering", "Done">>

StageIndex(s) == CHOOSE k \in 1..Len(StageOrder) : StageOrder[k] = s

\* every download task has ended and the composer has returned the base video
PreviousStageFinished(s) ==
    /\ s = "Composing" => \A i \in Tasks : task[i] \in {"returned", "collected"}
    /\ s = "SegmentingCaptions" => bpc = "done"

\* C15: an invocation moves from a stage only to the next stage of the fixed
\* order (or to Failed), and only when the work of the stage it leaves is
\* finished; Done and Failed are never left; write_videofile is called at most
\* once.
C15_StagesInFixedOrder ==
    [][/\ ppc' # ppc =>
            /\ ppc \notin {"Done", "Failed"}
            /\ \/ ppc' = "Failed"
               \/ /\ ppc' \in {StageOrder[k] : k \in 1..Len(StageOrder)}
                  /\ StageIndex(ppc') = StageIndex(ppc) + 1
                  /\ PreviousStageFinished(ppc')
       /\ encodes' <= 1]_vars

\* C15's case: an invocation went through every stage and encoded once
C15_Witness ==
    /\ ppc = "Done"
    /\ encodes = 1
    /\ output_file = "complete"

\* C16: an invocation ends in Failed only by an exception of the encode.
C16_FailedOnlyFromRendering ==
    ppc = "Failed" => failed_in = "render"

\* C17: when create_video has returned or raised, every media resource it
\* opened has been closed.
C17_NoHandleLeftOpen ==
    ppc \in {"Done", "Failed"} => open_handles = {}

\* C18: after an invocation that ended with an error, no file exists at the
\* output path.
C18_NoOutputFileAfterFailure ==
    ppc = "Failed" => output_file = "absent"

\* C27: a worker that finds the cache file at its check issues no download
\* request, never opens the file for writing, and returns the cached path.
C27_CacheHitSkipsDownload ==
    \A w \in Workers :
        hit[w] => /\ ~requested[w]
                  /\ wpos[w] = 0
                  /\ wpc[w] = "returned"
                  /\ wres[w] = "path"

\* C27's case: the file of an earlier run was there, a worker hit it and
\* returned, and the file is as the earlier run left it
C27_Witness ==
    /\ \E w \in Workers : hit[w] /\ wpc[w] = "returned"
    /\ cache_file = File(Body(EarlierRun, TRUE))

\* the file holds every chunk of one download that was answered with success
CompleteBody(file) ==
    \E w \in Workers \cup {EarlierRun} : file.data = Body(w, TRUE)

\* C28: a file that exists in the cache while no worker is writing it holds
\* the complete body of a successful download.
C28_CacheHoldsCompleteBodies ==
    (cache_file.exists /\ \A w \in Workers : wpc[w] # "write")
        => CompleteBody(cache_file)

\* C21: within one acquisition the selected terms are pairwise different,
\* every task has its own index, and no two tasks name the same cache file.
C21_TaskKeysDistinct ==
    kpc = "done" =>
        \A a, b \in 1..Len(download_tasks) :
            a # b => /\ selected_terms[a] # selected_terms[b]
                     /\ download_tasks[a][2] # download_tasks[b][2]
                     /\ cache_keys[a] # cache_keys[b]

\* C21's case: four tasks, two of them for terms that differ only by a space
\* against an underscore and so give the same file name stem
C21_Witness ==
    /\ kpc = "done"
    /\ Len(cache_keys) = MaxSelected
    /\ \E a, b \in 1..Len(download_tasks) :
          /\ a # b
          /\ ReplaceSpaces(download_tasks[a][1]) = ReplaceSpaces(download_tasks[b][1])

\* the words of the segments, one segment after the other
RECURSIVE SegmentWords(_)
SegmentWords(segs) ==
    IF segs = <<>> THEN <<>> ELSE Split(segs[1]) \o SegmentWords(Tail(segs))

\* the grouping loop and the flush of lines 357-363 are over
Segmented == cpc \in {"overlay", "done"} /\ words # <<>>

\* C24: every segment but a flushed last one ends with the 5th word of its
\* group or with a word ending in '.', '!' or '?'; a word ending in one of
\* these is only ever the last of its segment; and when the words run out
\* inside a group, that partial group is the final segment.
C24_SegmentBoundariesFollowRule ==
    /\ \A k \in 1..Len(segments) :
          /\ (k < Len(segments) \/ ~flushed) =>
                \/ WordCount(segments[k]) = MaxGroup
                \/ EndsWithTerminal(LastWord(segments[k]))
          /\ \A j \in 1..(WordCount(segments[k]) - 1) :
                ~EndsWithTerminal(Split(segments[k])[j])
    /\ Segmented =>
          /\ current = <<>>
          /\ Len(SegmentWords(segments)) = Len(words)
          /\ LastWord(segments[Len(segments)]) = words[Len(words)]
          /\ flushed <=> /\ WordCount(segments[Len(segments)]) < MaxGroup
                         /\ ~EndsWithTerminal(words[Len(words)])

\* C24's case: a sentence end closed a short segment and the words left over
\* were flushed as the final segment
C24_Witness ==
    /\ Segmented
    /\ flushed
    /\ Len(segments) >= 2
    /\ WordCount(segments[1]) < MaxGroup
    /\ EndsWithTerminal(LastWord(segments[1]))

\* str.split() finds no word
Blank(s) == \A i \in 1..Len(s) : s[i] \in Whitespace

\* C25: for an empty or whitespace-only script there is no word and no
\* segment, no division by the segment count takes place, and _add_captions
\* returns the video alone.
C25_BlankScriptNoCaptions ==
    Blank(script) =>
        /\ words = <<>>
        /\ segments = <<>>
        /\ caption_clips = <<>>
        /\ segment_duration = Zero
        /\ cpc \in {"split", "done"}
        /\ cpc = "done" => layers = <<"video">>

\* C25's case: a script of whitespace only went through _add_captions
C25_Witness ==
    /\ script # <<>>
    /\ Blank(script)
    /\ cpc = "done"
    /\ layers = <<"video">>

\* C29: the words of the segments, taken in order, are exactly the words of
\* the script, and no segment is empty.
C29_SegmentsKeepEveryWord ==
    /\ \A k \in 1..Len(segments) : Split(segments[k]) # <<>>
    /\ Segmented => SegmentWords(segments) = Split(script)

\* C29's case: a script with irregular whitespace was cut into several
\* segments, the last one flushed
C29_Witness ==
    /\ Segmented
    /\ Len(segments) >= 2
    /\ flushed
    /\ script # Join(Split(script), <<" ">>)

\* C26: in _create_base_video the running total of the accepted durations
\* never exceeds the target; a trimmed clip is the last one accepted, and its
\* trimmed duration brings the total to the target exactly.
C26_RunningTotalWithinTarget ==
    /\ ~Greater(base_total, target_duration)
    /\ \A k \in 1..Len(base_clips) :
          base_clips[k].trimmed =>
              /\ k = Len(base_clips)
              /\ base_total = target_duration

\* C23: create_video returns no result for a narration duration <= 0; the
\* invocation ends with a failure.
C23_InvalidDurationAborts ==
    duration <= 0 => (ppc # "Done" /\ result = <<>>)

\* the background tasks that have been started and have not finished
UnfinishedTasks == {r \in Requests : thread[r] \in {"started", "running"}}

\* C30: at most one background task is unfinished at any time, and a request
\* that arrived while the task of an accepted request was unfinished is
\* rejected and starts no task.
C30_OneTaskAtATime ==
    /\ Cardinality(UnfinishedTasks) <= 1
    /\ \A r \in Requests :
          arrived_late[r] => /\ handler[r] \in {"arrived", "rejected"}
                             /\ thread[r] = "none"

\* C22: every temp file a render wrote and has yet to read is still there
\* with that render's content, and the output file of a finished render holds
\* that render's encode: no other render overwrote or deleted either.
C22_RendersShareOnlyTheCache ==
    \A r \in Renders :
        /\ needs[r] \subseteq temp_dir
        /\ render_pc[r] \in {"encoded", "cleaned"} => output_dir[out_name[r]] = r

=============================================================================
